---- MODULE Spec2Model ----
(***************************************************************************)
(* Model of the gRPC endpoint comparison engine (grpc-comparison):         *)
(* the bucket map blockDataBySlot, the warm-up structure pendingBlockData, *)
(* the per-endpoint statistics, the active set, the warm-up deadline       *)
(* callback, the stream handlers and the end-of-test handler.              *)
(***************************************************************************)
EXTENDS Integers, Sequences, FiniteSets, TLC

\* ---------------------------------------------------------------- bounds
MaxMsgs == 3       \* stream messages delivered in one run (Spec)
MaxLiveMsgs == 3   \* stream messages delivered after the setup (SpecLive)
MaxTime == 1       \* largest reading of performance.now() (Spec)
MaxLiveTime == 2   \* largest reading of performance.now() (SpecLive)

\* ------------------------------------------------------ inputs of the run
endpoints == <<"A", "B", "C">>          \* the configured endpoints, in order
Names == {endpoints[i] : i \in 1..Len(endpoints)}
Slots == {1, 3, 103}                    \* slot numbers a stream may report
EarlySlots == {1, 103}                  \* the slots reported in Spec
Horizon == 100                          \* currentSlot - 100

VARIABLES
    blockDataBySlot,     \* Map slot -> list of blockData
    pendingBlockData,    \* Map slot -> list of blockData, in insertion order
    endpointStats,       \* name -> stats record
    firstSlotReceived,   \* name -> boolean
    activeEndpoints,     \* Set of names
    startedFormalStats,  \* boolean
    mainIdx,             \* index of the endpoint main() connects next
    handlers,            \* endpoints whose stream handlers are registered
    errored,             \* endpoints whose error handler has run
    connectFailed,       \* endpoints whose connection attempt threw
    deadlineFired,       \* availabilityCheckTimeout has run
    ended,               \* endTest has run (process.exit)
    report,              \* what endTest printed
    clock,               \* last reading of performance.now()
    nMsgs,               \* stream messages delivered so far
    scoredBy,            \* slot -> name -> times totalReceived++ ran for it
    nScorings,           \* number of bucket scorings performed
    nFlushes,            \* number of runs of processCollectedData
    delivered,           \* <<name, slot>> of every slot message handled
    openedLive,          \* slot -> activeEndpoints when its bucket was
                         \*         created in live phase
    demoted,             \* endpoints the deadline callback removed
    activeAtDeadline     \* activeEndpoints.size left by the deadline callback

vars == <<blockDataBySlot, pendingBlockData, endpointStats, firstSlotReceived,
          activeEndpoints, startedFormalStats, mainIdx, handlers, errored,
          connectFailed, deadlineFired, ended, report, clock, nMsgs,
          scoredBy, nScorings, nFlushes, delivered, openedLive, demoted,
          activeAtDeadline>>

\* ------------------------------------------------------------- helpers
RECURSIVE MinTimestamp(_)
MinTimestamp(list) ==
    IF Len(list) = 1 THEN list[1].timestamp
    ELSE LET m == MinTimestamp(Tail(list))
         IN IF list[1].timestamp < m THEN list[1].timestamp ELSE m

\* variant: only the first event of the list is counted
CountReceivedOnce(stats, list) ==
    IF list = <<>> THEN stats
    ELSE [stats EXCEPT ![list[1].endpoint].totalReceived = @ + 1]

\* blockDataList.forEach(bd => endpointStats[bd.endpoint].totalReceived++)
RECURSIVE CountReceived(_, _)
CountReceived(stats, list) ==
    IF list = <<>> THEN stats
    ELSE LET e == list[1].endpoint
         IN CountReceived(
              [stats EXCEPT ![e].totalReceived = @ + 1], Tail(list))

\* variant: the earliest event is given a latency sample too
ApplyLatencySampled(stats, bd, earliestTimestamp) ==
    LET latency == bd.timestamp - earliestTimestamp
    IN [stats EXCEPT ![bd.endpoint].latencies = Append(@, latency),
                     ![bd.endpoint].totalLatency = @ + latency]

\* the body of the second forEach, on one blockData
ApplyLatency(stats, bd, earliestTimestamp) ==
    LET latency == bd.timestamp - earliestTimestamp
    IN IF latency > 0
       THEN [stats EXCEPT ![bd.endpoint].latencies = Append(@, latency),
                          ![bd.endpoint].totalLatency = @ + latency]
       ELSE [stats EXCEPT ![bd.endpoint].firstReceived = @ + 1]

RECURSIVE ApplyLatencies(_, _, _)
ApplyLatencies(stats, list, earliestTimestamp) ==
    IF list = <<>> THEN stats
    ELSE ApplyLatencies(ApplyLatency(stats, list[1], earliestTimestamp),
                        Tail(list), earliestTimestamp)

\* scoring of one list of blockData (both forEach loops)
ScoreList(stats, list) ==
    ApplyLatencies(CountReceived(stats, list), list, MinTimestamp(list))

\* history: one more totalReceived++ per blockData of the scored list
RECURSIVE NoteScored(_, _, _)
NoteScored(sb, slot, list) ==
    IF list = <<>> THEN sb
    ELSE NoteScored([sb EXCEPT ![slot][list[1].endpoint] = @ + 1],
                    slot, Tail(list))

\* variant: the filter keeps the events of inactive endpoints
ActiveEndpointDataAll(list, active, stats) ==
    SelectSeq(list, LAMBDA bd : stats[bd.endpoint].hasReceivedData)

\* blockDataList.filter(data => activeEndpoints.has(data.endpoint)
\*                              && endpointStats[data.endpoint].hasReceivedData)
ActiveEndpointData(list, active, stats) ==
    SelectSeq(list, LAMBDA bd : bd.endpoint \in active
                                /\ stats[bd.endpoint].hasReceivedData)

FlushEligible(list, active, stats) ==
    Len(ActiveEndpointData(list, active, stats)) >= 2

\* processCollectedData: the statistics after the loop over the entries
RECURSIVE ProcessCollectedStats(_, _, _)
ProcessCollectedStats(pending, active, stats) ==
    IF pending = <<>> THEN stats
    ELSE LET aed == ActiveEndpointData(pending[1].list, active, stats)
             st  == IF Len(aed) >= 2 THEN ScoreList(stats, aed) ELSE stats
         IN ProcessCollectedStats(Tail(pending), active, st)

\* the slots processCollectedData scores
ProcessCollectedSlots(pending, active, stats) ==
    {pending[i].slot : i \in
        {j \in 1..Len(pending) :
            FlushEligible(pending[j].list, active, stats)}}

RECURSIVE ProcessCollectedNote(_, _, _, _)
ProcessCollectedNote(sb, pending, active, stats) ==
    IF pending = <<>> THEN sb
    ELSE LET aed == ActiveEndpointData(pending[1].list, active, stats)
             nb  == IF Len(aed) >= 2
                    THEN NoteScored(sb, pending[1].slot, aed) ELSE sb
         IN ProcessCollectedNote(nb, Tail(pending), active, stats)

\* pendingBlockData.has / get(...).push on the insertion-ordered map
PendingHas(pending, slot) ==
    \E i \in 1..Len(pending) : pending[i].slot = slot

PendingPush(pending, slot, bd) ==
    IF PendingHas(pending, slot)
    THEN [i \in 1..Len(pending) |->
            IF pending[i].slot = slot
            THEN [pending[i] EXCEPT !.list = Append(@, bd)]
            ELSE pending[i]]
    ELSE Append(pending, [slot |-> slot, list |-> <<bd>>])

\* blockDataBySlot.set / get(...).push
BucketPush(buckets, slot, bd) ==
    [k \in DOMAIN buckets \cup {slot} |->
        IF k = slot
        THEN (IF slot \in DOMAIN buckets THEN Append(buckets[slot], bd)
              ELSE <<bd>>)
        ELSE buckets[k]]

\* oldSlots.forEach(slot => blockDataBySlot.delete(slot)); the variant
\* finds no slot old
OldSlotsNone(buckets, currentSlot) == {}

OldSlots(buckets, currentSlot) ==
    {slot \in DOMAIN buckets : slot < currentSlot - Horizon}

DeleteOldSlots(buckets, currentSlot) ==
    [k \in DOMAIN buckets \ OldSlots(buckets, currentSlot) |-> buckets[k]]

ReceivedEndpoints(list) == {list[i].endpoint : i \in 1..Len(list)}

\* variant: the quorum test compares the sizes only
LiveEligibleBySize(list, active) ==
    Len(list) = Cardinality(active)

\* blockDataList.length === activeEndpoints.size && allActiveReceived
LiveEligible(list, active) ==
    /\ Len(list) = Cardinality(active)
    /\ \A ep \in active : ep \in ReceivedEndpoints(list)

\* ---------------------------------------------------------------- Init
Init ==
    /\ blockDataBySlot = <<>>
    /\ pendingBlockData = <<>>
    /\ endpointStats = [n \in Names |->
          [totalLatency |-> 0, latencies |-> <<>>, firstReceived |-> 0,
           totalReceived |-> 0, isAvailable |-> TRUE,
           hasReceivedData |-> FALSE]]
    /\ firstSlotReceived = [n \in Names |-> FALSE]
    /\ activeEndpoints = Names
    /\ startedFormalStats = FALSE
    /\ mainIdx = 1
    /\ handlers = {}
    /\ errored = {}
    /\ connectFailed = {}
    /\ deadlineFired = FALSE
    /\ ended = FALSE
    /\ report = [kind |-> "none", ranking |-> <<>>]
    /\ clock = 0
    /\ nMsgs = 0
    /\ scoredBy = [s \in Slots |-> [n \in Names |-> 0]]
    /\ nScorings = 0
    /\ nFlushes = 0
    /\ delivered = {}
    /\ openedLive = <<>>
    /\ demoted = {}
    /\ activeAtDeadline = 0


\* ------------------------------------------------------------- actions

\* main(): the try block of the connection loop completes for endpoints[mainIdx]
\* (subscribe, request write, handlers and ping interval installed)
Connect ==
    /\ ~ended
    /\ mainIdx <= Len(endpoints)
    /\ handlers' = handlers \cup {endpoints[mainIdx]}
    /\ mainIdx' = mainIdx + 1
    /\ UNCHANGED <<blockDataBySlot, pendingBlockData, endpointStats,
                   firstSlotReceived, activeEndpoints, startedFormalStats,
                   errored, connectFailed, deadlineFired, ended, report,
                   clock, nMsgs, scoredBy, nScorings, nFlushes,
                   delivered, openedLive, demoted, activeAtDeadline>>

\* variant: the endpoint's statistics are reset with the flag
SetUnavailableReset(stats, name) ==
    [stats EXCEPT ![name] = [@ EXCEPT !.isAvailable = FALSE,
                                      !.totalReceived = 0,
                                      !.firstReceived = 0,
                                      !.totalLatency = 0,
                                      !.latencies = <<>>]]

\* endpointStats[endpoint.name].isAvailable = false
SetUnavailable(stats, name) == [stats EXCEPT ![name].isAvailable = FALSE]

\* main(): subscribe or the request write throws; the catch block runs
ConnectFail ==
    /\ ~ended
    /\ mainIdx <= Len(endpoints)
    /\ LET name == endpoints[mainIdx] IN
        /\ endpointStats' = SetUnavailable(endpointStats, name)
        /\ activeEndpoints' = activeEndpoints \ {name}
        /\ connectFailed' = connectFailed \cup {name}
    /\ mainIdx' = mainIdx + 1
    /\ UNCHANGED <<blockDataBySlot, pendingBlockData, firstSlotReceived,
                   startedFormalStats, handlers, errored, deadlineFired,
                   ended, report, clock, nMsgs, scoredBy, nScorings, nFlushes,
                   delivered, openedLive, demoted, activeAtDeadline>>

\* variant: the all-ready test without the startedFormalStats flag
AllReadyStartsAgain(stats) ==
    Cardinality({n \in Names : stats[n].hasReceivedData}) = Len(endpoints)

\* if (!startedFormalStats && Object.values(endpointStats)
\*        .filter(s => s.hasReceivedData).length === endpoints.length)
AllReadyStarts(stats) ==
    /\ ~startedFormalStats
    /\ Cardinality({n \in Names : stats[n].hasReceivedData}) = Len(endpoints)

\* variant: the handler never takes the warm-up return
WarmingUpNever(started) == FALSE

\* if (!startedFormalStats) { ... pendingBlockData ... return; }
WarmingUp(started) == ~started

\* streams[name].on("data"), a message with data.slot
Data(name, currentSlot, timestamp) ==
    /\ ~ended
    /\ name \in handlers
    /\ LET first   == ~firstSlotReceived[name]
           stats1  == IF first
                      THEN [endpointStats EXCEPT
                               ![name].hasReceivedData = TRUE]
                      ELSE endpointStats
           enter   == first /\ AllReadyStarts(stats1)
           started1 == startedFormalStats \/ enter
           stats2  == IF enter
                      THEN ProcessCollectedStats(pendingBlockData,
                                                 activeEndpoints, stats1)
                      ELSE stats1
           flushed == IF enter
                      THEN ProcessCollectedSlots(pendingBlockData,
                                                 activeEndpoints, stats1)
                      ELSE {}
           sb1     == IF enter
                      THEN ProcessCollectedNote(scoredBy, pendingBlockData,
                                                activeEndpoints, stats1)
                      ELSE scoredBy
           pending1 == IF enter THEN <<>> ELSE pendingBlockData
           blockData == [endpoint |-> name, slot |-> currentSlot,
                         timestamp |-> timestamp]
           buckets1 == BucketPush(blockDataBySlot, currentSlot, blockData)
           blockDataList == buckets1[currentSlot]
           score   == /\ ~WarmingUp(started1)
                      /\ LiveEligible(blockDataList, activeEndpoints)
       IN
        /\ firstSlotReceived' = [firstSlotReceived EXCEPT ![name] = TRUE]
        /\ startedFormalStats' = started1
        /\ IF WarmingUp(started1)
           THEN /\ pendingBlockData' =
                      PendingPush(pending1, currentSlot, blockData)
                /\ blockDataBySlot' = buckets1
                /\ endpointStats' = stats2
                /\ scoredBy' = sb1
                /\ nScorings' = nScorings
           ELSE /\ pendingBlockData' = pending1
                /\ blockDataBySlot' =
                      IF score THEN DeleteOldSlots(buckets1, currentSlot)
                      ELSE buckets1
                /\ endpointStats' =
                      IF score THEN ScoreList(stats2, blockDataList)
                      ELSE stats2
                /\ scoredBy' =
                      IF score THEN NoteScored(sb1, currentSlot, blockDataList)
                      ELSE sb1
                /\ nScorings' = nScorings + Cardinality(flushed)
                                  + (IF score THEN 1 ELSE 0)
        /\ nFlushes' = nFlushes + (IF enter THEN 1 ELSE 0)
    /\ clock' = timestamp
    /\ nMsgs' = nMsgs + 1
    /\ delivered' = delivered \cup {<<name, currentSlot>>}
    /\ openedLive' =
          [k \in { j \in DOMAIN blockDataBySlot' :
                     \/ j \in DOMAIN openedLive
                     \/ j \notin DOMAIN blockDataBySlot
                           /\ startedFormalStats' } |->
              IF k \in DOMAIN openedLive THEN openedLive[k]
              ELSE activeEndpoints]
    /\ UNCHANGED <<activeEndpoints, mainIdx, handlers, errored, connectFailed,
                   deadlineFired, ended, report, demoted, activeAtDeadline>>

\* variant: a pong counts as the first sign of life of the endpoint
AfterReturnSeen(first, name) == [first EXCEPT ![name] = TRUE]

\* if (data.pong) return; and the skipped if (data.slot) {...}
AfterReturn(first, name) == first

\* streams[name].on("data"), a pong or a message without data.slot
Keepalive(name, kind) ==
    /\ ~ended
    /\ name \in handlers
    /\ nMsgs' = nMsgs + 1
    /\ firstSlotReceived' = AfterReturn(firstSlotReceived, name)
    /\ UNCHANGED <<blockDataBySlot, pendingBlockData, endpointStats,
                   activeEndpoints, startedFormalStats,
                   mainIdx, handlers, errored, connectFailed, deadlineFired,
                   ended, report, clock, scoredBy, nScorings, nFlushes,
                   delivered, openedLive, demoted, activeAtDeadline>>

\* variant: the call toggles the membership of the endpoint
DeleteToggled(active, name) ==
    IF name \in active THEN active \ {name} ELSE active \cup {name}

\* activeEndpoints.delete(endpoint.name)
Delete(active, name) == active \ {name}

\* streams[name].on("error")
Error(name) ==
    /\ ~ended
    /\ name \in handlers
    /\ name \notin errored
    /\ endpointStats' = SetUnavailable(endpointStats, name)
    /\ activeEndpoints' = Delete(activeEndpoints, name)
    /\ errored' = errored \cup {name}
    /\ UNCHANGED <<blockDataBySlot, pendingBlockData, firstSlotReceived,
                   startedFormalStats, mainIdx, handlers, connectFailed,
                   deadlineFired, ended, report, clock, nMsgs, scoredBy,
                   nScorings, nFlushes,
                   delivered, openedLive, demoted, activeAtDeadline>>

\* variant: the callback asks for more than 2 active endpoints
DeadlineStartsAbove2(active) ==
    ~startedFormalStats /\ Cardinality(active) > 2

\* if (!startedFormalStats && activeEndpoints.size >= 2)
DeadlineStarts(active) ==
    ~startedFormalStats /\ Cardinality(active) >= 2

\* variant: the callback demotes nobody
UnavailableNobody == {}

\* the endpoints the deadline callback finds without a first slot
Unavailable == {n \in Names : ~firstSlotReceived[n]}

\* availabilityCheckTimeout callback
AvailabilityCheck ==
    /\ ~ended
    /\ ~deadlineFired
    /\ LET active1 == activeEndpoints \ Unavailable
           stats1  == [n \in Names |->
                         IF n \in Unavailable
                         THEN [endpointStats[n] EXCEPT !.isAvailable = FALSE]
                         ELSE endpointStats[n]]
           enter   == DeadlineStarts(active1)
       IN
        /\ activeEndpoints' = active1
        /\ demoted' = Unavailable
        /\ activeAtDeadline' = Cardinality(active1)
        /\ startedFormalStats' = (startedFormalStats \/ enter)
        /\ endpointStats' =
              IF enter
              THEN ProcessCollectedStats(pendingBlockData, active1, stats1)
              ELSE stats1
        /\ scoredBy' =
              IF enter
              THEN ProcessCollectedNote(scoredBy, pendingBlockData,
                                        active1, stats1)
              ELSE scoredBy
        /\ nScorings' =
              IF enter
              THEN nScorings + Cardinality(
                     ProcessCollectedSlots(pendingBlockData, active1, stats1))
              ELSE nScorings
        /\ pendingBlockData' = IF enter THEN <<>> ELSE pendingBlockData
        /\ nFlushes' = nFlushes + (IF enter THEN 1 ELSE 0)
    /\ deadlineFired' = TRUE
    /\ UNCHANGED <<blockDataBySlot, firstSlotReceived, mainIdx, handlers,
                   errored, connectFailed, ended, report, clock, nMsgs,
                   delivered, openedLive>>

\* variant: the comparator sorts by ascending ratio
RatioLeq(sa, sb) ==
    sa.firstReceived * sb.totalReceived <= sb.firstReceived * sa.totalReceived

\* the comparator of endTest's sort puts a before-or-level-with b
RatioGeq(sa, sb) ==
    sa.firstReceived * sb.totalReceived >= sb.firstReceived * sa.totalReceived

\* the stable sort: x goes behind every element whose ratio is >= its own
RECURSIVE InsertSorted(_, _, _)
InsertSorted(sorted, x, stats) ==
    IF sorted = <<>> THEN <<x>>
    ELSE IF RatioGeq(stats[sorted[1]], stats[x])
         THEN <<sorted[1]>> \o InsertSorted(Tail(sorted), x, stats)
         ELSE <<x>> \o sorted

RECURSIVE SortEndpoints(_, _)
SortEndpoints(list, stats) ==
    IF list = <<>> THEN <<>>
    ELSE InsertSorted(SortEndpoints(SubSeq(list, 1, Len(list) - 1), stats),
                      list[Len(list)], stats)

SortedEndpoints(stats) ==
    SortEndpoints(SelectSeq(endpoints, LAMBDA n : stats[n].totalReceived > 0),
                  stats)

\* checkInterval callback once Date.now() >= endTime, and endTest.
\* The interval is armed after the connection loop; the deadline timer is
\* armed before it and expires before endTime (at most duration / 3), so the
\* deadline callback has run by then.
EndTest ==
    /\ ~ended
    /\ mainIdx > Len(endpoints)
    /\ deadlineFired
    /\ LET sorted == SortedEndpoints(endpointStats) IN
        report' = IF Len(sorted) >= 2
                  THEN [kind |-> "ranking", ranking |-> sorted]
                  ELSE [kind |-> "insufficient", ranking |-> <<>>]
    /\ ended' = TRUE
    /\ UNCHANGED <<blockDataBySlot, pendingBlockData, endpointStats,
                   firstSlotReceived, activeEndpoints, startedFormalStats,
                   mainIdx, handlers, errored, connectFailed, deadlineFired,
                   clock, nMsgs, scoredBy, nScorings, nFlushes,
                   delivered, openedLive, demoted, activeAtDeadline>>

\* performance.now() is monotonic: the next reading is not below the last.
\* The program uses the readings only in differences (latency), so the
\* reading of the first slot message is taken as the origin.
Readings ==
    IF delivered = {} THEN {clock}
    ELSE {t \in {clock, clock + 1} : t <= MaxTime}

KeepaliveKinds == {"pong", "noslot"}

DataStep ==
    /\ nMsgs < MaxMsgs
    /\ \E name \in Names, currentSlot \in EarlySlots, timestamp \in Readings :
          Data(name, currentSlot, timestamp)

KeepaliveStep ==
    /\ nMsgs < MaxMsgs
    /\ \E name \in Names, kind \in KeepaliveKinds : Keepalive(name, kind)

ErrorStep == \E name \in Names : Error(name)

Next ==
    \/ Connect
    \/ ConnectFail
    \/ DataStep
    \/ KeepaliveStep
    \/ ErrorStep
    \/ AvailabilityCheck
    \/ EndTest

Spec == Init /\ [][Next]_vars

\* SpecFair: the runs in which the timers do fire: the warm-up timeout is
\* armed before the connection loop and the checkInterval after it, and the
\* event loop runs their callbacks once they are due. Nothing makes a pending
\* subscribe() or write() settle, and no stream has to deliver or to fail.
SpecFair ==
    /\ Init /\ [][Next]_vars
    /\ WF_vars(AvailabilityCheck)
    /\ WF_vars(EndTest)

\* ---------------------------------------------------------------------
\* SpecLive: the runs of the program in which every connection succeeds, the
\* endpoints then report slot 1 in configuration order within one clock
\* reading, and the deadline callback fires next (the setup); after the
\* setup the streams are free to deliver and to fail until endTest.
SetupMsgs == Len(endpoints)
SetupDone == mainIdx > Len(endpoints) /\ nMsgs >= SetupMsgs /\ deadlineFired

LiveSetup ==
    /\ mainIdx > Len(endpoints)
    /\ nMsgs < SetupMsgs
    /\ Data(endpoints[nMsgs + 1], 1, clock)

LiveSetupCheck ==
    /\ mainIdx > Len(endpoints)
    /\ nMsgs = SetupMsgs
    /\ AvailabilityCheck

LiveReadings == {t \in {clock, clock + 1} : t <= MaxLiveTime}

LiveData ==
    /\ SetupDone
    /\ nMsgs < SetupMsgs + MaxLiveMsgs
    /\ \E name \in Names, currentSlot \in Slots,
          timestamp \in LiveReadings :
          Data(name, currentSlot, timestamp)

LiveError == SetupDone /\ ErrorStep

LiveEndTest == SetupDone /\ EndTest

NextLive ==
    \/ Connect
    \/ LiveSetup
    \/ LiveSetupCheck
    \/ LiveData
    \/ LiveError
    \/ LiveEndTest

SpecLive == Init /\ [][NextLive]_vars

\* =====================================================================
\* Properties
\* =====================================================================

\* the four scoring counters of every endpoint
Counters == [n \in Names |->
               <<endpointStats[n].firstReceived,
                 endpointStats[n].totalReceived,
                 endpointStats[n].totalLatency,
                 endpointStats[n].latencies>>]

RECURSIVE SumFirstReceived(_)
SumFirstReceived(names) ==
    IF names = {} THEN 0
    ELSE LET n == CHOOSE x \in names : TRUE
         IN endpointStats[n].firstReceived + SumFirstReceived(names \ {n})

\* the largest slot of any slot message handled so far
MaxDelivered ==
    CHOOSE k \in {p[2] : p \in delivered} :
        \A p \in delivered : p[2] <= k

SlotScored(k) == \E n \in Names : scoredBy[k][n] > 0

\* the step handles a slot message of endpoint n for slot k
\* (the garbage collection never deletes the slot of the message)
HandlesSlot(n, k) ==
    /\ nMsgs' = nMsgs + 1
    /\ k \in DOMAIN blockDataBySlot'
    /\ LET new == blockDataBySlot'[k]
           old == IF k \in DOMAIN blockDataBySlot
                  THEN blockDataBySlot[k] ELSE <<>>
       IN new = Append(old, new[Len(new)]) /\ new[Len(new)].endpoint = n

\* the step scores slot k
Scores(k) == scoredBy'[k] # scoredBy[k]

\* C1: for every slot k and endpoint s, totalReceived of s is incremented
\* at most once on account of slot k, over the whole run.
C1_ScoreOnce ==
    \A k \in Slots, n \in Names : scoredBy[k][n] <= 1

\* C2: the sum over all endpoints of firstReceived equals the number of
\* bucket scorings performed so far (exactly one winner per scoring).
C2_OneWinnerPerScoring ==
    SumFirstReceived(Names) = nScorings

\* C3: in live phase every active endpoint has delivered a first slot, and
\* an endpoint the deadline callback found silent is out of the active set
\* and keeps totalReceived = 0 whatever it delivers later.
C3_GraceExclusion ==
    /\ startedFormalStats =>
          \A n \in activeEndpoints : firstSlotReceived[n]
    /\ \A n \in demoted :
          /\ n \notin activeEndpoints
          /\ endpointStats[n].totalReceived = 0

\* C3 witness: live phase has scored a bucket, and an endpoint demoted by the
\* deadline callback has delivered a slot that other endpoints delivered too.
C3_Witness ==
    /\ startedFormalStats
    /\ nScorings > 0
    /\ \E n \in demoted, m \in activeEndpoints, k \in Slots :
          /\ <<n, k>> \in delivered
          /\ <<m, k>> \in delivered

\* C4: with K the largest slot handled so far, blockDataBySlot holds no
\* slot below K - 100.
C4_BoundedBucketMap ==
    delivered # {} =>
        \A k \in DOMAIN blockDataBySlot : k >= MaxDelivered - Horizon

\* C5: a bucket created in live phase while an endpoint c was active, c
\* having errored since, is scored in the step in which the last of the
\* remaining active endpoints contributes to it.
C5_QuorumAfterShrink ==
    [][\A k \in DOMAIN openedLive, n \in activeEndpoints :
          ( /\ (openedLive[k] \ activeEndpoints) \cap errored # {}
            /\ HandlesSlot(n, k)
            /\ n \notin ReceivedEndpoints(blockDataBySlot[k])
            /\ activeEndpoints \ {n}
                  \subseteq ReceivedEndpoints(blockDataBySlot[k]) )
          => Scores(k)]_vars

\* C6: with fewer than 2 endpoints in the active set, no step (a slot
\* message and the deadline callback included) changes an endpoint's
\* firstReceived, totalReceived, totalLatency or latencies.
C6_InsufficientActiveStops ==
    [][Cardinality(activeEndpoints) < 2 => Counters' = Counters]_vars

\* C7: once slot k has been scored, a further slot-k message from an endpoint
\* that already delivered slot k changes no endpoint's counters.
C7_DuplicateSafe ==
    [][\A k \in Slots, n \in Names :
          ( /\ SlotScored(k)
            /\ <<n, k>> \in delivered
            /\ HandlesSlot(n, k) )
          => Counters' = Counters]_vars

\* C8: right after a step that scores slot k, blockDataBySlot has no entry
\* for k.
C8_RemovedOnScoring ==
    [][\A k \in Slots :
          Scores(k) => k \notin DOMAIN blockDataBySlot']_vars

\* C9: once endTest has run, no bucket is left that was never scored and
\* holds slot messages of at least 2 currently active endpoints.
C9_FinalFlush ==
    ended =>
        \A k \in DOMAIN blockDataBySlot :
            ~( /\ ~SlotScored(k)
               /\ Cardinality(ReceivedEndpoints(blockDataBySlot[k])
                                \cap activeEndpoints) >= 2 )

\* C10 as stated: in every state after the deadline callback has fired,
\* startedFormalStats is true.
C10_LiveAfterDeadline ==
    deadlineFired => startedFormalStats

\* C10 amended: after the deadline callback has fired, startedFormalStats is
\* true exactly when the callback left at least 2 endpoints active or every
\* configured endpoint has delivered a first slot.
C10_LiveAfterDeadlineIfQuorum ==
    deadlineFired =>
        ( startedFormalStats <=>
            ( \/ activeAtDeadline >= 2
              \/ \A n \in Names : endpointStats[n].hasReceivedData ) )

\* C10 witness: the deadline callback has entered live phase, some endpoint
\* not having delivered a first slot.
C10_Witness ==
    /\ deadlineFired
    /\ activeAtDeadline >= 2
    /\ startedFormalStats
    /\ \E n \in Names : ~endpointStats[n].hasReceivedData

\* C11: processCollectedData runs at most once in a run, and once
\* startedFormalStats is true no step makes it false again.
C11_LiveEnteredOnce ==
    [][ /\ nFlushes' <= 1
        /\ startedFormalStats => startedFormalStats' ]_vars

\* C11 witness: live phase was entered and both entry tests have been met
\* since: the deadline callback has run with at least 2 endpoints active and
\* every configured endpoint has delivered a first slot.
C11_Witness ==
    /\ nFlushes = 1
    /\ startedFormalStats
    /\ deadlineFired
    /\ activeAtDeadline >= 2
    /\ \A n \in Names : endpointStats[n].hasReceivedData

\* C12: in a step that runs processCollectedData, a pending bucket is scored
\* if and only if it holds slot messages of at least 2 distinct endpoints of
\* the active set; a pending bucket whose active contributions all come from
\* one endpoint is not scored. (The slot of the message that enters live
\* phase is left out of the second half: the handler may score it afterwards
\* on the live path.)
C12_FlushRule ==
    [][nFlushes' # nFlushes =>
          \A i \in 1..Len(pendingBlockData) :
              LET k == pendingBlockData[i].slot
                  sources == ReceivedEndpoints(pendingBlockData[i].list)
                                \cap activeEndpoints'
              IN /\ Cardinality(sources) >= 2 => Scores(k)
                 /\ ( /\ Cardinality(sources) < 2
                      /\ ~(\E n \in Names : HandlesSlot(n, k)) )
                    => ~Scores(k)]_vars

\* the events held by pendingBlockData for slot k
PendingList(k) ==
    LET i == CHOOSE j \in 1..Len(pendingBlockData) :
                 pendingBlockData[j].slot = k
    IN pendingBlockData[i].list

\* C13: while startedFormalStats is false every endpoint's firstReceived,
\* totalReceived and totalLatency are 0 and its latencies are empty, and the
\* slot messages handled so far are all held, slot by slot, both in
\* blockDataBySlot and in pendingBlockData.
C13_NoScoringInWarmup ==
    ~startedFormalStats =>
        /\ \A n \in Names : Counters[n] = <<0, 0, 0, <<>>>>
        /\ nScorings = 0
        /\ DOMAIN blockDataBySlot =
              {pendingBlockData[i].slot : i \in 1..Len(pendingBlockData)}
        /\ \A k \in DOMAIN blockDataBySlot :
              /\ PendingList(k) = blockDataBySlot[k]
              /\ \A n \in Names :
                    <<n, k>> \in delivered
                       <=> n \in ReceivedEndpoints(blockDataBySlot[k])

\* C13 witness: still in warm-up after the deadline callback, with a bucket
\* that holds slot messages of 2 different endpoints, one of them active.
C13_Witness ==
    /\ ~startedFormalStats
    /\ deadlineFired
    /\ \E k \in DOMAIN blockDataBySlot :
          /\ Cardinality(ReceivedEndpoints(blockDataBySlot[k])) >= 2
          /\ ReceivedEndpoints(blockDataBySlot[k]) \cap activeEndpoints # {}

\* C14: a slot message handled in live phase scores at most its own slot k,
\* and only if every endpoint of the active set then has an event in bucket
\* k; every endpoint whose counters the step changes is in the active set.
C14_LiveQuorumNecessary ==
    [][\A n \in Names, k \in Slots :
          (startedFormalStats /\ HandlesSlot(n, k)) =>
              /\ \A j \in Slots : Scores(j) =>
                    /\ j = k
                    /\ activeEndpoints \subseteq
                          ReceivedEndpoints(blockDataBySlot'[k])
              /\ \A m \in Names :
                    Counters'[m] # Counters[m] => m \in activeEndpoints]_vars

\* C14 witness: after the deadline callback demoted an endpoint, a slot
\* message has scored its bucket on the live path with every active endpoint
\* in it (only that scoring deletes buckets: an older bucket is gone).
C14_Witness ==
    /\ startedFormalStats
    /\ demoted # {}
    /\ \E k \in DOMAIN blockDataBySlot :
          /\ \A n \in activeEndpoints : scoredBy[k][n] > 0
          /\ activeEndpoints \subseteq ReceivedEndpoints(blockDataBySlot[k])
    /\ \E p \in delivered : p[2] \notin DOMAIN blockDataBySlot

\* C15: when endTest has run with fewer than 2 endpoints in the active set,
\* what it printed is the insufficient-data line and not a ranking.
C15_InsufficientReport ==
    (ended /\ Cardinality(activeEndpoints) < 2) =>
        report.kind = "insufficient"

\* latencies.length > 0 ? totalLatency / latencies.length : 0, as the
\* pair <<numerator, denominator>>
AvgLatencyWhenSlower(st) ==
    IF Len(st.latencies) > 0
    THEN <<st.totalLatency, Len(st.latencies)>> ELSE <<0, 1>>

\* C16: for every two adjacent endpoints x before y of the printed ranking,
\* firstReceived/totalReceived of x is above that of y, or they are equal
\* and the average latency of x is at most that of y.
C16_RankingOrder ==
    report.kind = "ranking" =>
        \A i \in 1..(Len(report.ranking) - 1) :
            LET x == endpointStats[report.ranking[i]]
                y == endpointStats[report.ranking[i + 1]]
                ax == AvgLatencyWhenSlower(x)
                ay == AvgLatencyWhenSlower(y)
            IN \/ x.firstReceived * y.totalReceived
                     > y.firstReceived * x.totalReceived
               \/ /\ x.firstReceived * y.totalReceived
                       = y.firstReceived * x.totalReceived
                  /\ ax[1] * ay[2] <= ay[1] * ax[2]

\* the endpoints endTest listed
Ranked == {report.ranking[i] : i \in 1..Len(report.ranking)}

\* C17: once endTest has run, an endpoint is listed in the printed ranking if
\* and only if its totalReceived is above 0.
C17_RankingMembership ==
    ended =>
        \A n \in Names : n \in Ranked <=> endpointStats[n].totalReceived > 0

\* the lists of events the step scores: the pending lists a run of
\* processCollectedData scores, as filtered, then the bucket of the handled
\* slot message if the live path scores it
RECURSIVE ScoredPending(_, _, _)
ScoredPending(pending, active, stats) ==
    IF pending = <<>> THEN <<>>
    ELSE LET aed == ActiveEndpointData(pending[1].list, active, stats)
         IN (IF Len(aed) >= 2 THEN <<aed>> ELSE <<>>)
               \o ScoredPending(Tail(pending), active, stats)

StepFlushed ==
    IF nFlushes' # nFlushes
    THEN ScoredPending(pendingBlockData, activeEndpoints', endpointStats')
    ELSE <<>>

StepScored ==
    LET flushed == StepFlushed
    IN IF nScorings' = nScorings + Len(flushed) + 1
       THEN LET k == CHOOSE j \in Slots : \E n \in Names : HandlesSlot(n, j)
            IN Append(flushed, blockDataBySlot'[k])
       ELSE flushed

Earliest(list) ==
    CHOOSE t \in {list[i].timestamp : i \in 1..Len(list)} :
        \A i \in 1..Len(list) : t <= list[i].timestamp

\* the latencies above 0 of the events of endpoint n, list by list
RECURSIVE TrailingOf(_, _)
TrailingOf(n, lists) ==
    IF lists = <<>> THEN <<>>
    ELSE LET earliest == Earliest(lists[1])
             late == SelectSeq(lists[1], LAMBDA bd :
                        bd.endpoint = n /\ bd.timestamp - earliest > 0)
         IN [i \in 1..Len(late) |-> late[i].timestamp - earliest]
               \o TrailingOf(n, Tail(lists))

\* the number of events of endpoint n with latency 0
RECURSIVE EarliestOf(_, _)
EarliestOf(n, lists) ==
    IF lists = <<>> THEN 0
    ELSE LET earliest == Earliest(lists[1])
         IN Len(SelectSeq(lists[1], LAMBDA bd :
                   bd.endpoint = n /\ bd.timestamp - earliest = 0))
               + EarliestOf(n, Tail(lists))

RECURSIVE SumSeq(_)
SumSeq(seq) == IF seq = <<>> THEN 0 ELSE seq[1] + SumSeq(Tail(seq))

\* C18: in every step, with the events it scores taken list by list and
\* latency = timestamp - earliest timestamp of the list: no latency is
\* negative; for every endpoint firstReceived grows by the number of its
\* scored events with latency 0, its latencies are extended by exactly the
\* latencies above 0 of its scored events, in order, totalLatency grows by
\* their sum, and totalReceived grows by the number of its scored events.
\* A step that scores nothing leaves the four counters as they are.
C18_ScoringRule ==
    [][IF nFlushes' = nFlushes /\ nScorings' = nScorings
       THEN Counters' = Counters
       ELSE LET scored == StepScored IN
        /\ \A i \in 1..Len(scored) : \A j \in 1..Len(scored[i]) :
              scored[i][j].timestamp - MinTimestamp(scored[i]) >= 0
        /\ \A n \in Names :
              LET old == endpointStats[n]
                  new == endpointStats'[n]
                  trailing == TrailingOf(n, scored)
                  first == EarliestOf(n, scored)
              IN /\ new.firstReceived = old.firstReceived + first
                 /\ new.latencies = old.latencies \o trailing
                 /\ new.totalLatency = old.totalLatency + SumSeq(trailing)
                 /\ new.totalReceived =
                       old.totalReceived + first + Len(trailing) ]_vars

\* C18 witness: buckets have been scored, with an event at the earliest
\* timestamp and an event behind it.
C18_Witness ==
    /\ nScorings > 0
    /\ \E n \in Names : endpointStats[n].firstReceived > 0
    /\ \E n \in Names :
          /\ endpointStats[n].latencies # <<>>
          /\ endpointStats[n].totalLatency > 0

\* C19: every run reaches endTest and prints its report, also when the
\* connection attempt of an endpoint never completes.
C19_RunTerminates == <>ended

\* the number of events of endpoint n held in a map slot -> list
RECURSIVE EventsIn(_, _)
EventsIn(n, lists) ==
    IF lists = <<>> THEN 0
    ELSE Len(SelectSeq(lists[1], LAMBDA bd : bd.endpoint = n))
            + EventsIn(n, Tail(lists))

\* C20: once the error handler of an endpoint has run, or its connection
\* attempt has thrown, no step adds an event of that endpoint to
\* blockDataBySlot or to pendingBlockData.
C20_ErrorIsTerminal ==
    [][\A n \in errored \cup connectFailed :
          /\ \A k \in Slots : ~HandlesSlot(n, k)
          /\ EventsIn(n, [i \in 1..Len(pendingBlockData') |->
                             pendingBlockData'[i].list])
                <= EventsIn(n, [i \in 1..Len(pendingBlockData) |->
                                   pendingBlockData[i].list])]_vars

\* C21: no step changes firstReceived, totalReceived, totalLatency or
\* latencies of an endpoint that is outside the active set after the step
\* (the step that removes it included), whatever message is handled.
C21_InactiveNeverScored ==
    [][\A n \in Names \ activeEndpoints' : Counters'[n] = Counters[n]]_vars

\* C21 witness: an endpoint that was scored and whose stream then emitted an
\* error has reported a slot whose bucket was created without it in the
\* active set.
C21_Witness ==
    \E n \in errored :
        /\ endpointStats[n].totalReceived > 0
        /\ \E k \in DOMAIN openedLive :
              /\ n \notin openedLive[k]
              /\ n \in ReceivedEndpoints(blockDataBySlot[k])

\* C22: no step adds an endpoint to the active set, and no step resets
\* hasReceivedData or firstSlotReceived of an endpoint to false; the first
\* slot of an endpoint is therefore observed at most once.
C22_MonotoneFlags ==
    [][ /\ activeEndpoints' \subseteq activeEndpoints
        /\ \A n \in Names :
              /\ endpointStats[n].hasReceivedData
                    => endpointStats'[n].hasReceivedData
              /\ firstSlotReceived[n] => firstSlotReceived'[n] ]_vars

\* C22 witness: an endpoint the deadline callback removed has since reported
\* its first slot, its stream has emitted an error, and it is still outside
\* the active set.
C22_Witness ==
    \E n \in demoted \cap errored :
        /\ endpointStats[n].hasReceivedData
        /\ firstSlotReceived[n]
        /\ n \notin activeEndpoints

\* C23: the deadline callback has run only in states in which the
\* connection attempt of every configured endpoint has completed.
C23_DeadlineAfterConnects ==
    deadlineFired => mainIdx > Len(endpoints)

\* C24: a step in which the error handler of endpoint s runs, or in which
\* the connection attempt of s throws, removes s and nothing else from the
\* active set, clears isAvailable of s, and leaves blockDataBySlot,
\* pendingBlockData, startedFormalStats, every other field of endpointStats
\* and the first-slot flags as they are; endTest does not run in it.
C24_ErrorIsolation ==
    [][\A s \in (errored' \cup connectFailed') \ (errored \cup connectFailed) :
          /\ activeEndpoints' = activeEndpoints \ {s}
          /\ endpointStats' =
                [endpointStats EXCEPT ![s].isAvailable = FALSE]
          /\ UNCHANGED <<blockDataBySlot, pendingBlockData,
                         startedFormalStats, firstSlotReceived, ended,
                         report, nScorings, nFlushes>>]_vars

\* C24 witness: the run goes on in live phase after the stream of a scored
\* endpoint emitted an error and the connection attempt of another threw.
C24_Witness ==
    /\ ~ended
    /\ startedFormalStats
    /\ connectFailed # {}
    /\ \E s \in errored :
          /\ ~endpointStats[s].isAvailable
          /\ endpointStats[s].totalReceived > 0
          /\ s \notin activeEndpoints

\* the number of events held in a sequence of lists
RECURSIVE SumLen(_)
SumLen(lists) ==
    IF lists = <<>> THEN 0 ELSE Len(lists[1]) + SumLen(Tail(lists))

\* C25: a step that handles a stream message without appending a slot event
\* to a bucket (a pong, or a message without a slot key) changes none of
\* blockDataBySlot, pendingBlockData, the first-slot flags, the active set,
\* startedFormalStats and endpointStats, and does not end the run.
C25_KeepaliveInert ==
    [][( /\ nMsgs' = nMsgs + 1
         /\ ~(\E n \in Names, k \in Slots : HandlesSlot(n, k)) )
       => UNCHANGED <<blockDataBySlot, pendingBlockData, firstSlotReceived,
                      activeEndpoints, startedFormalStats, endpointStats,
                      ended, report, nScorings, nFlushes>>]_vars

\* C25 witness: in warm-up, with slot events pending, more stream messages
\* have been handled than slot events are held: one was a keepalive.
C25_Witness ==
    /\ ~startedFormalStats
    /\ pendingBlockData # <<>>
    /\ nMsgs > SumLen([i \in 1..Len(pendingBlockData) |->
                          pendingBlockData[i].list])

\* C26: in live phase, endpoint c having errored and the two others being
\* the active set, a bucket k created after the error and without an event
\* of c is scored in the step in which the second of the two active
\* endpoints contributes to it and in no other step that appends to it, and
\* that scoring leaves the counters of c as they are.
C26_ScoringAfterError ==
    [][\A c \in Names : \A n \in Names \ {c}, k \in DOMAIN openedLive :
          ( /\ startedFormalStats
            /\ errored = {c}
            /\ activeEndpoints = Names \ {c}
            /\ openedLive[k] = activeEndpoints
            /\ c \notin ReceivedEndpoints(blockDataBySlot[k])
            /\ HandlesSlot(n, k) )
          => LET had == ReceivedEndpoints(blockDataBySlot[k])
             IN /\ Scores(k) <=> (n \notin had /\ had # {})
                /\ Counters'[c] = Counters[c]]_vars

\* no stream has failed, every endpoint has reported every reported slot
\* exactly once, and the event of endpoint a has the strictly smallest
\* timestamp of each slot
AlwaysFirst(a) ==
    /\ errored = {} /\ connectFailed = {}
    /\ delivered # {}
    /\ \A p \in delivered :
          /\ p[2] \in DOMAIN blockDataBySlot
          /\ LET list == blockDataBySlot[p[2]]
             IN /\ Len(list) = Cardinality(Names)
                /\ ReceivedEndpoints(list) = Names
                /\ \A i, j \in 1..Len(list) :
                      (list[i].endpoint = a /\ list[j].endpoint # a)
                          => list[i].timestamp < list[j].timestamp

\* what the claim promises for endpoint a once endTest has run
RanksFirst(a) ==
    /\ endpointStats[a].totalReceived > 0
    /\ endpointStats[a].firstReceived = endpointStats[a].totalReceived
    /\ \A m \in Ranked \ {a} : endpointStats[m].firstReceived = 0
    /\ report.kind = "ranking"
    /\ report.ranking[1] = a

\* C27 as stated: if no endpoint errors, every endpoint reports every slot
\* exactly once and endpoint a is strictly first for every slot, then after
\* endTest a has totalReceived > 0 and firstReceived = totalReceived, every
\* other ranked endpoint has firstReceived = 0, and a heads the ranking.
C27_AlwaysFirstRanksFirst ==
    \A a \in Names : (ended /\ AlwaysFirst(a)) => RanksFirst(a)

\* C27 amended: the same, for the runs that end with at least 2 endpoints in
\* the active set (the deadline callback removed at most all but two).
C27_AlwaysFirstRanksFirstIfQuorum ==
    \A a \in Names :
        (ended /\ AlwaysFirst(a) /\ Cardinality(activeEndpoints) >= 2)
            => RanksFirst(a)

\* C27 witness: endTest has run on such a run, after the deadline callback
\* removed one endpoint that reported later.
C27_Witness ==
    /\ ended
    /\ Cardinality(activeEndpoints) = 2
    /\ demoted # {}
    /\ \E a \in Names : AlwaysFirst(a)

\* C28: in every state and for every endpoint, totalReceived = firstReceived
\* + latencies.length, totalLatency is the sum of latencies, every latency
\* stored is above 0, and so firstReceived <= totalReceived.
C28_CounterAccounting ==
    \A n \in Names :
        LET st == endpointStats[n]
        IN /\ st.totalReceived = st.firstReceived + Len(st.latencies)
           /\ st.totalLatency = SumSeq(st.latencies)
           /\ \A i \in 1..Len(st.latencies) : st.latencies[i] > 0
           /\ st.firstReceived >= 0
           /\ st.firstReceived <= st.totalReceived

\* C28 witness: an endpoint has been first twice and another holds two
\* latency samples.
C28_Witness ==
    /\ \E n \in Names : endpointStats[n].firstReceived >= 2
    /\ \E n \in Names : Len(endpointStats[n].latencies) >= 2

\* C29: a step that performs at most one scoring per slot (the deadline
\* callback, or a slot message handled in live phase) raises no endpoint's
\* count of scored events of a slot by more than 1.
C29_OneContributionPerScoring ==
    [][(startedFormalStats \/ nMsgs' = nMsgs) =>
          \A k \in Slots, n \in Names :
              scoredBy'[k][n] <= scoredBy[k][n] + 1]_vars

\* C30: a step whose slot message for slot K is scored by the live path
\* leaves exactly the buckets of the slots >= K - 100, the bucket of K
\* among them and the other ones as they were; a step without a live-path
\* scoring removes no bucket and no event of a bucket.
C30_GcAtLiveScoring ==
    [][IF nScorings' = nScorings
       THEN \/ blockDataBySlot' = blockDataBySlot
            \/ \A j \in DOMAIN blockDataBySlot :
                   /\ j \in DOMAIN blockDataBySlot'
                   /\ Len(blockDataBySlot'[j]) >= Len(blockDataBySlot[j])
                   /\ SubSeq(blockDataBySlot'[j], 1, Len(blockDataBySlot[j]))
                         = blockDataBySlot[j]
       ELSE IF nScorings' = nScorings + Len(StepFlushed) + 1
            THEN \E n \in Names, K \in Slots :
                    /\ HandlesSlot(n, K)
                    /\ DOMAIN blockDataBySlot' =
                          {j \in DOMAIN blockDataBySlot \cup {K} :
                              j >= K - Horizon}
                    /\ \A j \in DOMAIN blockDataBySlot' \ {K} :
                          blockDataBySlot'[j] = blockDataBySlot[j]
            ELSE \A j \in DOMAIN blockDataBySlot :
                    /\ j \in DOMAIN blockDataBySlot'
                    /\ Len(blockDataBySlot'[j]) >= Len(blockDataBySlot[j])
                    /\ SubSeq(blockDataBySlot'[j], 1, Len(blockDataBySlot[j]))
                          = blockDataBySlot[j]]_vars

\* the bucket of slot 103 has been scored by the live path with the bucket
\* of slot 1 in the map: slot 1 is gone, slot 103 is kept
C30_Witness ==
    /\ startedFormalStats
    /\ SlotScored(103)
    /\ 103 \in DOMAIN blockDataBySlot
    /\ 1 \notin DOMAIN blockDataBySlot
    /\ \E p \in delivered : p[2] = 1

====
